---- MODULE Spec2Model ----
(***************************************************************************)
(* The consensus engine of chaoschain (crates/consensus/src/manager.rs):   *)
(* ConsensusManager with its six fields, and one action per public         *)
(* operation.  Each operation is one atomic step.  The outcome of the last *)
(* call is kept in `last`, and the history variable `finalized` records    *)
(* whether add_vote has returned Ok(true) since the round began.           *)
(***************************************************************************)
EXTENDS Integers, Sequences, FiniteSets, TLC

\* ------------------------------------------------------------------ bounds
\* largest stake passed to register_validator
MaxStake == 2
\* actions that would raise total_stake above this are not taken
MaxTotal == 5

\* ------------------------------------------------------- program constants
\* rand::thread_rng().gen_range(1..10): the reward is drawn from 1..9
RewardLow == 1
RewardHighExcl == 10

\* ----------------------------------------------------------------- values
Agents == {"v1", "v2"}
NoAgent == "none"
\* finality_threshold (f64) as a fraction <<numerator, denominator>>
Ratios == {<<1, 2>>, <<2, 3>>, <<1, 1>>}

\* the total_stake passed to ConsensusManager::new
InitTotals == {0, 1}
\* the stake argument of add_vote
StakeArgs == {0, MaxStake}
Heights == {1}
\* Block: the fields the engine reads (height) and the gateway fills (producer)
Blocks == [height : Heights, producer : Agents]
NoBlock == [height |-> 0, producer |-> NoAgent]
\* Block::hash(): a deterministic function of the block's fields
hash(b) == <<b.height, b.producer>>
Hashes == {hash(b) : b \in Blocks}
\* Vote: agent_id is the key of the votes map; reason, meme_url and signature
\* are never read by the engine
Votes == [block_hash : Hashes, approve : BOOLEAN]

EmptyMap == [x \in {} |-> 0]
\* an insert that forgets the other entries
Insert_alone(m, k, v) == [x \in {k} |-> v]
\* an insert that keeps the entry the key already has
Insert_if_absent(m, k, v) ==
    [x \in (DOMAIN m) \cup {k} |-> IF x \in DOMAIN m THEN m[x] ELSE v]
\* HashMap::insert
Insert(m, k, v) == [x \in (DOMAIN m) \cup {k} |-> IF x = k THEN v ELSE m[x]]

VARIABLES
    current_block,      \* Option<Block>: NoBlock is None
    votes,              \* HashMap<String, Vote>
    total_stake,        \* u64
    finality_threshold, \* f64, fixed at construction
    current_proposer,   \* Option<String>: NoAgent is None
    validators_stakes,  \* HashMap<String, u64>
    last,               \* the last call: its name, its proposer_id (set_proposal)
                        \* or its vote's agent_id and approve (add_vote), its
                        \* result, the reward it added
    finalized,          \* history: add_vote has returned Ok(true) in this round
    hist,               \* history of the last add_vote: the stake argument and
                        \* the vote it replaced (kept only under SpecVotes)
    agents,             \* ApiState::agents: HashMap<String, RegisteredAgent>
    issued,             \* history: the (agent_id, token) pairs the web gateway's
                        \* register_agent has answered with
    req,                \* the last request to a gateway and its answer
    bus,                \* the broadcast channel of network events and its
                        \* receivers
    tasks,              \* the requests and engine operations in progress, each
                        \* with the statement it has reached
    now,                \* the wall clock (chrono::Utc::now), in hours
    social_graph        \* ApiState::social_graph: alliances, interactions and
                        \* drama scores (in tenths)

vars == <<current_block, votes, total_stake, finality_threshold, current_proposer,
          validators_stakes, last, finalized, hist, agents, issued, req, bus,
          tasks, now, social_graph>>

\* what only the specifications of the locks and of the tokens change
others == <<tasks, now, social_graph>>

gateway == <<agents, issued, req, bus, others>>

engine == <<current_block, votes, total_stake, current_proposer, validators_stakes>>

Call(op, arg, res, reward) ==
    [op |-> op, arg |-> arg, approve |-> FALSE, res |-> res, reward |-> reward]

\* a call of add_vote: arg is vote.agent_id, approve is vote.approve
VoteCall(agent_id, vote, res, reward) ==
    [op |-> "add_vote", arg |-> agent_id, approve |-> vote.approve,
     res |-> res, reward |-> reward]

\* no add_vote yet, or history not kept
NoHist == [stake |-> 0, prev |-> "none"]

\* no Authorization header
NoToken == <<>>

\* broadcast::channel: nothing sent, no receiver
NoBus == [log |-> <<>>, subs |-> EmptyMap]

\* no request and no engine operation in progress
NoTasks == EmptyMap

\* SocialGraph::new
NoSocialGraph == [alliances |-> EmptyMap, interactions |-> <<>>, drama_scores |-> EmptyMap]

\* no request yet
NoReq == [endpoint |-> "none", token |-> NoToken, agent_id |-> NoAgent, status |-> 0]

\* ConsensusManager::new
InitEngine ==
    /\ current_block = NoBlock
    /\ current_proposer = NoAgent
    /\ votes = EmptyMap
    /\ validators_stakes = EmptyMap
    /\ total_stake \in InitTotals
    /\ finality_threshold \in Ratios
    /\ last = Call("new", NoAgent, "ok", 0)
    /\ finalized = FALSE
    /\ hist = NoHist

\* ConsensusManager::new, ApiState::new (no agent registered), no request yet
Init ==
    /\ InitEngine
    /\ agents = EmptyMap
    /\ issued = {}
    /\ bus = NoBus
    /\ tasks = NoTasks
    /\ now = 0
    /\ social_graph = NoSocialGraph
    /\ req = NoReq

\* stakes.values().sum()
RECURSIVE SumOver(_, _)
SumOver(m, S) ==
    IF S = {} THEN 0
    ELSE LET k == CHOOSE x \in S : TRUE IN m[k] + SumOver(m, S \ {k})

SumStakes(m) == SumOver(m, DOMAIN m)

\* (total_stake as f64 * self.finality_threshold) as u64
threshold_stake(total, ratio) == (total * ratio[1]) \div ratio[2]

\* a count that takes the registered stake of every voter, approving or not
approve_stake_any_vote(vs, stakes) ==
    SumOver(stakes, {v \in DOMAIN vs : v \in DOMAIN stakes})

\* the loop of check_consensus: the registered stake of every approving voter
approve_stake(vs, stakes) ==
    LET counted == {v \in DOMAIN vs : vs[v].approve /\ v \in DOMAIN stakes}
    IN SumOver(stakes, counted)

\* check_consensus with `>` for `>=`
check_consensus_strict(vs, stakes, total, ratio) ==
    IF approve_stake(vs, stakes) > threshold_stake(total, ratio)
    THEN "consensus" ELSE "insufficient_stake"

\* check_consensus: Ok(true), or Err(InsufficientStake)
check_consensus(vs, stakes, total, ratio) ==
    IF approve_stake(vs, stakes) >= threshold_stake(total, ratio)
    THEN "consensus" ELSE "insufficient_stake"

\* start_voting_round
StartVotingRound(block) ==
    /\ current_block' = block
    /\ votes' = EmptyMap
    /\ last' = Call("start_voting_round", NoAgent, "ok", 0)
    /\ finalized' = FALSE
    /\ UNCHANGED <<total_stake, finality_threshold, current_proposer, validators_stakes>>

\* register_validator
RegisterValidator(id, stake) ==
    /\ total_stake + stake <= MaxTotal
    /\ validators_stakes' = Insert(validators_stakes, id, stake)
    /\ total_stake' = total_stake + stake
    /\ last' = Call("register_validator", NoAgent, "ok", 0)
    /\ UNCHANGED <<current_block, votes, finality_threshold, current_proposer, finalized>>

\* award_proposer: the proposer's entry, when there is one
award_stakes(stakes, proposer_id, reward) ==
    IF proposer_id \in DOMAIN stakes
    THEN [stakes EXCEPT ![proposer_id] = @ + reward]
    ELSE stakes

\* award_proposer: *total += reward, whether or not the entry exists
award_total(total, reward) == total + reward

\* add_vote without the comparison of the vote's hash with the block's
add_vote_check_any_hash(block, vote) ==
    IF block = NoBlock THEN "no_active_round" ELSE "store"

\* add_vote, lines 47-61: the checks made before the vote is stored
add_vote_check(block, vote) ==
    IF block = NoBlock THEN "no_active_round"
    ELSE IF vote.block_hash # hash(block) THEN "wrong_block"
    ELSE "store"

\* add_vote counting, for the voter, the stake supplied with the vote
AddVote_supplied(agent_id, vote, stake) ==
    LET pre == add_vote_check(current_block, vote) IN
    IF pre # "store"
    THEN /\ last' = VoteCall(agent_id, vote, pre, 0)
         /\ UNCHANGED <<engine, finality_threshold, finalized>>
    ELSE
      LET inserted == Insert(votes, agent_id, vote)
          res == check_consensus(inserted, Insert(validators_stakes, agent_id, stake),
                                 total_stake, finality_threshold)
      IN /\ votes' = inserted
         /\ last' = VoteCall(agent_id, vote, res, 0)
         /\ finalized' = (finalized \/ res = "consensus")
         /\ UNCHANGED <<current_block, current_proposer, finality_threshold,
                        validators_stakes, total_stake>>

\* add_vote(vote, stake): `stake` is never read
AddVote(agent_id, vote, stake) ==
    LET pre == add_vote_check(current_block, vote) IN
    IF pre # "store"
    THEN /\ last' = VoteCall(agent_id, vote, pre, 0)
         /\ UNCHANGED <<engine, finality_threshold, finalized>>
    ELSE
      LET inserted == Insert(votes, agent_id, vote)
          res == check_consensus(inserted, validators_stakes, total_stake,
                                 finality_threshold)
      IN /\ votes' = inserted
         /\ UNCHANGED <<current_block, current_proposer, finality_threshold>>
         /\ IF res = "consensus"
            THEN /\ finalized' = TRUE
                 /\ IF current_proposer # NoAgent
                    THEN \E reward \in RewardLow..(RewardHighExcl - 1) :
                           /\ total_stake + reward <= MaxTotal
                           /\ validators_stakes' =
                                award_stakes(validators_stakes, current_proposer, reward)
                           /\ total_stake' = award_total(total_stake, reward)
                           /\ last' = VoteCall(agent_id, vote, res, reward)
                    ELSE /\ last' = VoteCall(agent_id, vote, res, 0)
                         /\ UNCHANGED <<validators_stakes, total_stake>>
            ELSE /\ last' = VoteCall(agent_id, vote, res, 0)
                 /\ UNCHANGED <<validators_stakes, total_stake, finalized>>

\* the orders in which a HashMap may iterate over its keys
Orders(S) ==
    {o \in [1..Cardinality(S) -> S] : \A i, j \in DOMAIN o : i # j => o[i] # o[j]}

\* start_new_round, lines 121-127: scan from position i with `pick` left
RECURSIVE select_from(_, _, _, _)
select_from(order, i, pick, stakes) ==
    IF i > Len(order) THEN NoAgent
    ELSE IF pick < stakes[order[i]] THEN order[i]
    ELSE select_from(order, i + 1, pick - stakes[order[i]], stakes)

\* the scan with `pick <= *stake` for `pick < *stake`
RECURSIVE select_from_le(_, _, _, _)
select_from_le(order, i, pick, stakes) ==
    IF i > Len(order) THEN NoAgent
    ELSE IF pick <= stakes[order[i]] THEN order[i]
    ELSE select_from_le(order, i + 1, pick - stakes[order[i]], stakes)

select_proposer_le(order, pick, stakes) == select_from_le(order, 1, pick, stakes)

select_proposer(order, pick, stakes) == select_from(order, 1, pick, stakes)

\* start_new_round: gen_range(0..total) panics on the empty range
StartNewRound ==
    LET total == SumStakes(validators_stakes) IN
    IF total = 0
    THEN /\ last' = Call("start_new_round", NoAgent, "panic", 0)
         /\ UNCHANGED <<engine, finality_threshold, finalized>>
    ELSE \E pick \in 0..(total - 1), order \in Orders(DOMAIN validators_stakes) :
           /\ current_proposer' = select_proposer(order, pick, validators_stakes)
           /\ votes' = EmptyMap
           /\ current_block' = NoBlock
           /\ last' = Call("start_new_round", NoAgent, "ok", 0)
           /\ finalized' = FALSE
           /\ UNCHANGED <<total_stake, finality_threshold, validators_stakes>>

\* set_proposal checking only that a proposer was selected
set_proposal_check_some(proposer, proposer_id) ==
    IF proposer = NoAgent THEN "wrong_proposer" ELSE "ok"

\* set_proposal, lines 143-148: current_proposer.as_ref() != Some(&proposer_id)
set_proposal_check(proposer, proposer_id) ==
    IF proposer # proposer_id THEN "wrong_proposer" ELSE "ok"

\* set_proposal
SetProposal(block, proposer_id) ==
    LET res == set_proposal_check(current_proposer, proposer_id) IN
    /\ current_block' = IF res = "ok" THEN block ELSE current_block
    /\ last' = Call("set_proposal", proposer_id, res, 0)
    /\ UNCHANGED <<votes, total_stake, finality_threshold, current_proposer,
                   validators_stakes, finalized>>

Next ==
    \/ \E b \in Blocks : StartVotingRound(b) /\ UNCHANGED <<hist, gateway>>
    \/ \E id \in Agents, s \in 0..MaxStake :
          RegisterValidator(id, s) /\ UNCHANGED <<hist, gateway>>
    \/ \E id \in Agents, v \in Votes, s \in StakeArgs :
          AddVote(id, v, s) /\ UNCHANGED <<hist, gateway>>
    \/ StartNewRound /\ UNCHANGED <<hist, gateway>>
    \/ \E b \in Blocks, id \in Agents : SetProposal(b, id) /\ UNCHANGED <<hist, gateway>>

Spec == Init /\ [][Next]_vars

\* submit_vote of the agent gateway: the HTTP status it answers with, given
\* the result of add_vote.  Any error of add_vote becomes ApiError::Internal.
submit_vote_status(res) == IF res = "consensus" THEN 200 ELSE 500

\* submit_validation of the web gateway: the "status" field of its JSON answer
submit_validation_status(res) == IF res = "consensus" THEN "success" ELSE "error"

\* ------------------------------------------------- the votes of one engine
\* The same engine with the history of the last add_vote kept: its stake
\* argument, and the vote of the same agent that it replaced.
PrevVote(agent_id) ==
    IF agent_id \notin DOMAIN votes THEN "none"
    ELSE IF votes[agent_id].approve THEN "approve" ELSE "reject"

AddVoteH(agent_id, vote, stake) ==
    /\ AddVote(agent_id, vote, stake)
    /\ hist' = [stake |-> stake,
                prev |-> IF add_vote_check(current_block, vote) = "store"
                         THEN PrevVote(agent_id) ELSE "none"]

NextVotes ==
    \/ \E b \in Blocks : StartVotingRound(b) /\ hist' = NoHist /\ UNCHANGED gateway
    \/ \E id \in Agents, s \in 0..MaxStake :
          RegisterValidator(id, s) /\ hist' = NoHist /\ UNCHANGED gateway
    \/ \E id \in Agents, v \in Votes, s \in StakeArgs :
          AddVoteH(id, v, s) /\ UNCHANGED gateway
    \/ StartNewRound /\ hist' = NoHist /\ UNCHANGED gateway
    \/ \E b \in Blocks, id \in Agents : SetProposal(b, id) /\ hist' = NoHist /\ UNCHANGED gateway

SpecVotes == Init /\ [][NextVotes]_vars

\* ------------------------------------------------- the agent gateway (api)
\* A performance score is the exact rational num / 10^k, written <<num, k>>.
MaxUpdates == 5

\* RegisteredAgent.stake at registration
InitialStake == 100

\* PERFORMANCE_WEIGHT, as a fraction
PERFORMANCE_WEIGHT == <<1, 10>>

RECURSIVE Pow10(_)
Pow10(k) == IF k = 0 THEN 1 ELSE 10 * Pow10(k - 1)

\* performance_score: 1.0
FullScore == <<1, 0>>

Roles == {"validator", "producer"}

\* the RegisteredAgent that register_agent stores
NewAgent(role) ==
    [role |-> role, stake |-> InitialStake, performance_score |-> FullScore,
     total_votes_submitted |-> 0, successful_validations |-> 0]

\* an update that adds the weight without decaying the old score
ema_no_decay(score, success) ==
    LET num == score[1]
        k == score[2]
        w == PERFORMANCE_WEIGHT
    IN IF success THEN <<w[2] * num + w[1] * Pow10(k), k + 1>>
       ELSE <<(w[2] - w[1]) * num, k + 1>>

\* update_performance, the score: (1.0 - w) * score + w on success and
\* (1.0 - w) * score on failure, w = 1/10, over the denominator 10^(k+1)
ema(score, success) ==
    LET num == score[1]
        k == score[2]
        w == PERFORMANCE_WEIGHT
    IN IF success THEN <<(w[2] - w[1]) * num + w[1] * Pow10(k), k + 1>>
       ELSE <<(w[2] - w[1]) * num, k + 1>>

\* the same score over the least power of 10
RECURSIVE Reduced(_)
Reduced(score) ==
    IF score[2] > 0 /\ score[1] % 10 = 0
    THEN Reduced(<<score[1] \div 10, score[2] - 1>>)
    ELSE score

\* RegisteredAgent::update_performance
update_performance(agent, success) ==
    [agent EXCEPT
        !.performance_score = Reduced(ema(@, success)),
        !.successful_validations = IF success THEN @ + 1 ELSE @,
        !.total_votes_submitted = @ + 1]

\* RegisteredAgent::get_effective_stake: (stake as f64 * performance_score) as u64
get_effective_stake(agent) ==
    (agent.stake * agent.performance_score[1]) \div Pow10(agent.performance_score[2])

\* one registered agent and every sequence of performance updates
UpdatePerformance(id, success) ==
    /\ id \in DOMAIN agents
    /\ agents[id].total_votes_submitted < MaxUpdates
    /\ agents' = [agents EXCEPT ![id] = update_performance(@, success)]
    /\ UNCHANGED <<engine, finality_threshold, last, finalized, hist, issued, others, req,
                   bus>>

InitPerformance ==
    /\ InitEngine
    /\ \E role \in Roles : agents = [id \in {"v1"} |-> NewAgent(role)]
    /\ issued = {}
    /\ bus = NoBus
    /\ tasks = NoTasks
    /\ now = 0
    /\ social_graph = NoSocialGraph
    /\ req = NoReq

NextPerformance == \E id \in Agents, success \in BOOLEAN : UpdatePerformance(id, success)

SpecPerformance == InitPerformance /\ [][NextPerformance]_vars

\* the JWT of an agent: the key that signed it and the agent_id of its claims
JwtKeys == {"jwt_key", "other_key"}
ApiTokens == {NoToken} \cup {<<key, id>> : key \in JwtKeys, id \in Agents}

\* register_agent: the token it answers with
api_token(id) == <<"jwt_key", id>>

\* get_agent_from_request: the agent of the token's claims, NoAgent for
\* Err(AuthenticationFailed)
get_agent_from_request(token) ==
    IF token = NoToken THEN NoAgent
    ELSE IF token[1] # "jwt_key" THEN NoAgent
    ELSE IF token[2] \notin DOMAIN agents THEN NoAgent
    ELSE token[2]

\* register_agent: a fresh uuid, stake 100, score 1.0
ApiRegister(id, role) ==
    /\ id \notin DOMAIN agents
    /\ agents' = Insert(agents, id, NewAgent(role))
    /\ last' = Call("register_agent", id, "200", 0)
    /\ UNCHANGED <<engine, finality_threshold, finalized, issued, others, req, bus>>

\* get_network_status: the counts it reports
get_network_status(registry) ==
    [validator_count |->
         Cardinality({id \in DOMAIN registry : registry[id].role = "validator"}),
     producer_count |->
         Cardinality({id \in DOMAIN registry : registry[id].role = "producer"}),
     registered_agents |-> Cardinality(DOMAIN registry)]

\* get_agent_leaderboard: the ids of the entries under "validators"
leaderboard_validators(registry) ==
    {id \in DOMAIN registry : registry[id].role = "validator"}

\* broadcast::Sender::send: an error when the channel has no receiver
broadcast_send(receivers) == IF receivers = 0 THEN "err" ELSE "ok"

\* the numbers of receivers of event_tx a request may find
Receivers == {0, 1}

\* submit_block: no role check; the block is given the agent as its proposer,
\* the round is started, then the proposal event is sent and an error of the
\* send is answered with 500.  `receivers` is the number of receivers of
\* event_tx at the send.
SubmitBlock(token, block, receivers) ==
    LET id == get_agent_from_request(token) IN
    IF id = NoAgent
    THEN /\ last' = Call("submit_block", NoAgent, "401", 0)
         /\ req' = [endpoint |-> "/api/producers/propose", token |-> token,
                    agent_id |-> NoAgent, status |-> 401]
         /\ UNCHANGED <<engine, finality_threshold, finalized, agents, issued, others,
                        bus>>
    ELSE /\ StartVotingRound([block EXCEPT !.producer = id])
         /\ req' = [endpoint |-> "/api/producers/propose", token |-> token,
                    agent_id |-> id,
                    status |-> IF broadcast_send(receivers) = "ok" THEN 200 ELSE 500]
         /\ UNCHANGED <<agents, issued, others, bus>>

\* the drama scores of the social graph, as fractions: 0, 1/2 and 3
DramaScores == {<<0, 1>>, <<1, 2>>, <<3, 1>>}

\* the votes one agent submits through the gateway
MaxSubmitted == 1
NoDrama == <<0, 1>>

\* (drama_score + 1.0).min(2.0)
drama_multiplier(score) ==
    IF score[1] + score[2] <= 2 * score[2]
    THEN <<score[1] + score[2], score[2]>> ELSE <<2, 1>>

alliance_bonus(allied) == IF allied THEN <<3, 2>> ELSE <<1, 1>>

\* (effective_stake as f64 * alliance_bonus * drama_multiplier) as u64
social_stake(agent, allied, score) ==
    LET b == alliance_bonus(allied)
        m == drama_multiplier(score)
    IN (get_effective_stake(agent) * b[1] * m[1]) \div (b[2] * m[2])

\* submit_vote of an agent without external client; `block` is the block the
\* state store holds at the height of the request, NoBlock if there is none
SubmitVote(token, block, approved, allied, score) ==
    LET id == get_agent_from_request(token) IN
    IF id = NoAgent
    THEN /\ last' = Call("submit_vote", NoAgent, "401", 0)
         /\ UNCHANGED <<engine, finality_threshold, finalized, gateway>>
    ELSE IF agents[id].role # "validator" \/ block = NoBlock
    THEN /\ last' = Call("submit_vote", id, "400", 0)
         /\ UNCHANGED <<engine, finality_threshold, finalized, gateway>>
    ELSE /\ agents[id].total_votes_submitted < MaxSubmitted
         /\ AddVote(id, [block_hash |-> hash(block), approve |-> approved],
                    social_stake(agents[id], allied, score))
         /\ agents' = IF submit_vote_status(last'.res) = 200
                      THEN [agents EXCEPT ![id] = update_performance(@, TRUE)]
                      ELSE agents
         /\ UNCHANGED <<issued, others, req, bus>>

\* the stake submit_vote supplies to add_vote, kept in hist
SuppliedStake(token, block, allied, score) ==
    LET id == get_agent_from_request(token) IN
    IF id = NoAgent \/ block = NoBlock THEN NoHist
    ELSE IF agents[id].role # "validator" THEN NoHist
    ELSE [stake |-> social_stake(agents[id], allied, score), prev |-> "none"]

NextApi ==
    \/ \E id \in Agents, role \in Roles : ApiRegister(id, role) /\ hist' = NoHist
    \/ \E token \in ApiTokens, b \in Blocks, receivers \in Receivers :
          SubmitBlock(token, b, receivers) /\ hist' = NoHist
    \/ \E token \in ApiTokens, b \in Blocks \cup {NoBlock}, approved, allied \in BOOLEAN,
          score \in DramaScores :
          /\ SubmitVote(token, b, approved, allied, score)
          /\ hist' = SuppliedStake(token, b, allied, score)

\* the total stake the engine of a gateway is constructed with: none, or that
\* of two agents of the initial stake
ApiTotals == {0, 2 * InitialStake}

\* ConsensusManager::new, ApiState::new
InitApi ==
    /\ current_block = NoBlock
    /\ current_proposer = NoAgent
    /\ votes = EmptyMap
    /\ validators_stakes = EmptyMap
    /\ total_stake \in ApiTotals
    /\ finality_threshold \in Ratios
    /\ last = Call("new", NoAgent, "ok", 0)
    /\ finalized = FALSE
    /\ hist = NoHist
    /\ agents = EmptyMap
    /\ issued = {}
    /\ bus = NoBus
    /\ tasks = NoTasks
    /\ now = 0
    /\ social_graph = NoSocialGraph
    /\ req = NoReq

SpecApi == InitApi /\ [][NextApi]_vars

\* ------------------------------------------------------- the event bus
\* The broadcast channel of NetworkEvents: `log` holds the events sent while
\* the channel had a receiver, in the order of the sends; the channel retains
\* the last BusCapacity of them.  A receiver is [kind, start, next, frames,
\* lagged, live]: `start` is the index in `log` of the first event sent after
\* it subscribed, `next` that of the event it receives next, `frames` the
\* indices of the events it has forwarded, LagFrame for an error frame, and
\* `lagged` tells that a recv of it has returned Lagged.
BusCapacity == 3
MaxEvents == 5

Subscribers == {"s1", "s2"}
\* handle_socket, events_handler, TelegramChannel::run_broadcast
SubKinds == {"ws", "sse", "telegram"}
LagFrame == 0

\* Sender::receiver_count
receiver_count(b) == Cardinality({s \in DOMAIN b.subs : b.subs[s].live})

\* Sender::send of each event in turn: dropped when there is no receiver
publish(b, events) ==
    IF receiver_count(b) = 0 THEN b ELSE [b EXCEPT !.log = @ \o events]

\* the log can take n more events
Room(b, n) == receiver_count(b) = 0 \/ Len(b.log) + n <= MaxEvents

\* the index of the oldest event the channel retains
oldest(b) == IF Len(b.log) > BusCapacity THEN Len(b.log) - BusCapacity + 1 ELSE 1

\* tx.subscribe(): the receiver starts after the events already sent
BusSubscribe(s, kind) ==
    /\ s \notin DOMAIN bus.subs
    /\ bus' = [bus EXCEPT !.subs = Insert(@, s, [kind |-> kind, start |-> Len(bus.log) + 1,
                                                 next |-> Len(bus.log) + 1,
                                                 frames |-> <<>>, lagged |-> FALSE,
                                                 live |-> TRUE])]
    /\ UNCHANGED <<engine, finality_threshold, last, finalized, hist, agents, issued, others, req>>

\* one rx.recv() of a receiver that lags: Err(Lagged), the receiver moved to
\* the oldest retained event.  handle_socket leaves its loop, events_handler
\* emits an "error" frame, run_broadcast logs a warning, the demo's logging
\* task leaves its loop.
lagged(sub, first) ==
    IF sub.kind \in {"ws", "log"} THEN [sub EXCEPT !.lagged = TRUE, !.live = FALSE]
    ELSE IF sub.kind = "sse"
    THEN [sub EXCEPT !.next = first, !.lagged = TRUE, !.frames = Append(@, LagFrame)]
    ELSE [sub EXCEPT !.next = first, !.lagged = TRUE]

\* a receiver that hands on the newest event in place of the next one
received_newest(sub) ==
    [sub EXCEPT !.next = @ + 1, !.frames = Append(@, Len(bus.log))]

\* one rx.recv() that yields an event: it is forwarded
received(sub) == [sub EXCEPT !.next = @ + 1, !.frames = Append(@, sub.next)]

\* one turn of a receive loop
BusRecv(s) ==
    /\ s \in DOMAIN bus.subs
    /\ bus.subs[s].live
    /\ bus.subs[s].next <= Len(bus.log)
    /\ bus' = [bus EXCEPT !.subs[s] =
                  IF @.next < oldest(bus) THEN lagged(@, oldest(bus)) ELSE received(@)]
    /\ UNCHANGED <<engine, finality_threshold, last, finalized, hist, agents, issued, others, req>>

\* the events submit_content sends for one proposal
ProposalEvents == <<"proposal", "announcement", "validation_required">>

\* submit_content: the round is started, then the three events are sent
SubmitContent(agent_id, height) ==
    /\ Room(bus, Len(ProposalEvents))
    /\ StartVotingRound([height |-> height, producer |-> agent_id])
    /\ bus' = publish(bus, ProposalEvents)

\* the announcement submit_validation and handle_validation_vote send when
\* add_vote returns Ok(true): APPROVED or REJECTED after the deciding vote
consensus_event(approved) ==
    IF approved THEN "consensus_approved" ELSE "consensus_rejected"
ConsensusEvents == {"consensus_approved", "consensus_rejected"}

\* the events of a vote, by the result of add_vote: none for an error
validation_events(res, approved) ==
    IF res = "consensus" THEN <<"validation", consensus_event(approved)>> ELSE <<>>

\* vote.stake of submit_validation (`let stake = 100u64`)
ValidationStake == 100

\* submit_validation: a vote for the block under vote, then the events
SubmitValidation(agent_id, approved) ==
    IF current_block = NoBlock
    THEN UNCHANGED <<engine, finality_threshold, last, finalized, bus>>
    ELSE /\ Room(bus, 2)
         /\ AddVote(agent_id, [block_hash |-> hash(current_block), approve |-> approved],
                    ValidationStake)
         /\ bus' = publish(bus, validation_events(last'.res, approved))

NextBus ==
    \/ \E s \in Subscribers, kind \in SubKinds : BusSubscribe(s, kind)
    \/ \E s \in Subscribers : BusRecv(s)
    \/ \E id \in Agents, height \in Heights :
          SubmitContent(id, height) /\ UNCHANGED <<hist, agents, issued, others, req>>
    \/ \E id \in Agents, approved \in BOOLEAN :
          SubmitValidation(id, approved) /\ UNCHANGED <<hist, agents, issued, others, req>>

SpecBus == Init /\ [][NextBus]_vars

\* --------------------------------------------------- the web gateway (web)
\* A token is <<prefix, rest>>: register_agent answers with "agent_token_"
\* followed by random hex digits.
TokenPrefixes == {"agent_token_", "other_"}
TokenRests == {"t1", "t2"}
WebTokens == {NoToken} \cup {<<p, r>> : p \in TokenPrefixes, r \in TokenRests}

\* str::starts_with
starts_with(token, prefix) == token # NoToken /\ token[1] = prefix

\* AppState::validate_token
validate_token(agent_id, token) ==
    /\ agent_id # ""
    /\ token # NoToken
    /\ starts_with(token, "agent_token_")

\* start_web_server: the routes without and with the auth_middleware layer
PublicRoutes ==
    {"/api/network/status", "/api/events", "/api/agents/register", "/api/ws"}
ProtectedRoutes ==
    {"/api/agents/validate", "/api/agents/status", "/api/transactions/propose",
     "/api/alliances/propose"}

\* auth_middleware: the status it refuses the request with, 200 to pass it on.
\* agent_id is the X-Agent-ID header (or query or path value) of the request,
\* NoAgent when the request has none.
auth_middleware(token, agent_id) ==
    IF token = NoToken THEN 401
    ELSE IF agent_id = NoAgent THEN 401
    ELSE IF ~validate_token(agent_id, token) THEN 401
    ELSE 200

\* ws_handler: token and agent_id are query parameters, only the token's
\* prefix is looked at
ws_handler(token, agent_id) ==
    IF token = NoToken \/ agent_id = NoAgent THEN 401
    ELSE IF ~starts_with(token, "agent_token_") THEN 401
    ELSE 200

\* register_agent: a random agent_id and a random token, neither is stored
WebRegister(id, rest) ==
    LET token == <<"agent_token_", rest>> IN
    /\ \A pair \in issued : pair[1] # id /\ pair[2] # token
    /\ issued' = issued \cup {<<id, token>>}
    /\ req' = [endpoint |-> "/api/agents/register", token |-> NoToken,
               agent_id |-> id, status |-> 200]
    /\ bus' = publish(bus, <<"agent_joined">>)
    /\ UNCHANGED <<engine, finality_threshold, last, finalized, hist, agents, others>>

\* a request to any other route: the middleware where the route has it, then
\* the handler acting as the agent_id of the request
WebRequest(endpoint, token, agent_id, approved, height) ==
    LET status == IF endpoint \in ProtectedRoutes THEN auth_middleware(token, agent_id)
                  ELSE IF endpoint = "/api/ws" THEN ws_handler(token, agent_id)
                  ELSE 200
    IN /\ endpoint # "/api/agents/register"
       /\ req' = [endpoint |-> endpoint, token |-> token, agent_id |-> agent_id,
                  status |-> status]
       /\ UNCHANGED <<hist, agents, issued, others>>
       /\ IF status = 200 /\ endpoint = "/api/agents/validate"
          THEN SubmitValidation(agent_id, approved)
          ELSE IF status = 200 /\ endpoint = "/api/transactions/propose"
          THEN SubmitContent(agent_id, height)
          ELSE UNCHANGED <<engine, finality_threshold, last, finalized, bus>>

NextWeb ==
    \/ \E id \in Agents, rest \in TokenRests : WebRegister(id, rest)
    \/ \E endpoint \in PublicRoutes \cup ProtectedRoutes, token \in WebTokens,
          agent_id \in Agents \cup {NoAgent}, approved \in BOOLEAN, height \in Heights :
          WebRequest(endpoint, token, agent_id, approved, height)

SpecWeb == Init /\ [][NextWeb]_vars

\* ------------------------------------------------------------- the locks
\* ApiState::agents and ApiState::social_graph are std::sync::RwLock, the
\* fields of the engine tokio::sync::RwLock.  A task is a request to the
\* agent gateway or an engine operation in progress: `prog` names its code and
\* `pc` the statement it has reached.  A statement takes a guard (read,
\* write) or drops one (unread, unwrite); a guard bound to a variable is
\* dropped at the end of its scope, a temporary at the end of its statement.
Locks == {"agents", "social_graph", "current_block", "votes", "validators_stakes",
          "total_stake", "current_proposer"}
Tasks == {"t1", "t2"}

\* auth_middleware: `agents` is bound before next.run(req).await and dropped
\* after it
auth_middleware_enter == << <<"read", "agents">> >>
auth_middleware_exit == << <<"unread", "agents">> >>

\* get_agent_from_request
get_agent_from_request_locks == << <<"read", "agents">>, <<"unread", "agents">> >>

\* ConsensusManager::start_voting_round
start_voting_round_locks ==
    << <<"write", "current_block">>, <<"write", "votes">>, <<"unwrite", "votes">>,
       <<"unwrite", "current_block">> >>

\* ConsensusManager::check_consensus
check_consensus_locks ==
    << <<"read", "validators_stakes">>, <<"read", "total_stake">>,
       <<"unread", "total_stake">>, <<"unread", "validators_stakes">> >>

\* ConsensusManager::award_proposer
award_proposer_locks ==
    << <<"write", "validators_stakes">>, <<"write", "total_stake">>,
       <<"unwrite", "total_stake">>, <<"unwrite", "validators_stakes">> >>

\* ConsensusManager::add_vote that returns Ok(true) with a proposer selected
add_vote_locks ==
    << <<"read", "current_block">>, <<"write", "votes">> >>
    \o check_consensus_locks
    \o << <<"read", "current_proposer">> >>
    \o award_proposer_locks
    \o << <<"unread", "current_proposer">>, <<"unwrite", "votes">>,
          <<"unread", "current_block">> >>

\* ConsensusManager::add_vote that returns Err(InsufficientStake)
add_vote_err_locks ==
    << <<"read", "current_block">>, <<"write", "votes">> >>
    \o check_consensus_locks
    \o << <<"unwrite", "votes">>, <<"unread", "current_block">> >>

\* ConsensusManager::register_validator
register_validator_locks ==
    << <<"write", "validators_stakes">>, <<"write", "total_stake">>,
       <<"unwrite", "total_stake">>, <<"unwrite", "validators_stakes">> >>

\* ConsensusManager::start_new_round
start_new_round_locks ==
    << <<"read", "validators_stakes">>, <<"unread", "validators_stakes">>,
       <<"write", "current_proposer">>, <<"unwrite", "current_proposer">>,
       <<"read", "current_proposer">>, <<"unread", "current_proposer">>,
       <<"write", "votes">>, <<"unwrite", "votes">>,
       <<"write", "current_block">>, <<"unwrite", "current_block">> >>

\* ConsensusManager::set_proposal by the selected proposer
set_proposal_locks ==
    << <<"read", "current_proposer">>, <<"unread", "current_proposer">>,
       <<"write", "current_block">>, <<"unwrite", "current_block">> >>

\* register_agent (the middleware passes it on before it reads `agents`)
register_agent_locks == << <<"write", "agents">>, <<"unwrite", "agents">> >>

\* submit_vote of a validator whose vote is counted: `social_graph` is bound
\* before add_vote and lives to the end of the handler
submit_vote_locks ==
    get_agent_from_request_locks
    \o << <<"read", "social_graph">> >>
    \o add_vote_locks
    \o << <<"write", "agents">>, <<"unwrite", "agents">>, <<"unread", "social_graph">> >>

\* submit_vote answered 500 after add_vote's error
submit_vote_err_locks ==
    get_agent_from_request_locks
    \o << <<"read", "social_graph">> >>
    \o add_vote_err_locks
    \o << <<"unread", "social_graph">> >>

\* submit_block
submit_block_locks ==
    get_agent_from_request_locks
    \o start_voting_round_locks
    \o << <<"write", "agents">>, <<"unwrite", "agents">> >>

\* social_interaction: `agents` is bound before social_graph.write() and
\* lives to the end of the handler
social_interaction_locks ==
    get_agent_from_request_locks
    \o << <<"read", "agents">>, <<"write", "social_graph">>,
          <<"unwrite", "social_graph">>, <<"unread", "agents">> >>

\* get_alliances
get_alliances_locks ==
    << <<"read", "social_graph">>, <<"read", "agents">>, <<"unread", "agents">>,
       <<"unread", "social_graph">> >>

\* create_router: the handler under the auth_middleware layer
layered(handler) == auth_middleware_enter \o handler \o auth_middleware_exit

\* the requests of the agent gateway and the operations of the engine
Programs ==
    [register_agent |-> register_agent_locks,
     submit_vote |-> layered(submit_vote_locks),
     submit_vote_err |-> layered(submit_vote_err_locks),
     submit_block |-> layered(submit_block_locks),
     social_interaction |-> layered(social_interaction_locks),
     get_alliances |-> layered(get_alliances_locks),
     start_voting_round |-> start_voting_round_locks,
     add_vote |-> add_vote_locks,
     register_validator |-> register_validator_locks,
     start_new_round |-> start_new_round_locks,
     set_proposal |-> set_proposal_locks]

\* the statements task t has executed that are st
executed(t, st) ==
    Cardinality({i \in 1..(tasks[t].pc - 1) : Programs[tasks[t].prog][i] = st})

\* the read guards and the write guards task t holds on lock l
reads(t, l) == executed(t, <<"read", l>>) - executed(t, <<"unread", l>>)
writes(t, l) == executed(t, <<"write", l>>) - executed(t, <<"unwrite", l>>)

\* the tasks whose guards keep task t from executing statement st:
\* RwLock::read waits for the writer, RwLock::write for every guard, those of
\* the task itself included
holders(t, st) ==
    IF st[1] = "read" THEN {u \in DOMAIN tasks : writes(u, st[2]) > 0}
    ELSE IF st[1] = "write"
    THEN {u \in DOMAIN tasks : writes(u, st[2]) > 0 \/ reads(u, st[2]) > 0}
    ELSE {}

\* task t has a statement left
running(t) == t \in DOMAIN tasks /\ tasks[t].pc <= Len(Programs[tasks[t].prog])

\* the statement task t is at
statement(t) == Programs[tasks[t].prog][tasks[t].pc]

\* a request arrives or an engine operation is called
TaskStart(t, prog) ==
    /\ t \notin DOMAIN tasks
    /\ tasks' = Insert(tasks, t, [prog |-> prog, pc |-> 1])
    /\ UNCHANGED <<engine, finality_threshold, last, finalized, hist, agents, issued, req,
                   bus, now, social_graph>>

\* the task executes its next statement
TaskStep(t) ==
    /\ running(t)
    /\ holders(t, statement(t)) = {}
    /\ tasks' = [tasks EXCEPT ![t].pc = @ + 1]
    /\ UNCHANGED <<engine, finality_threshold, last, finalized, hist, agents, issued, req,
                   bus, now, social_graph>>

\* the task returns
TaskEnd(t) ==
    /\ t \in DOMAIN tasks
    /\ ~running(t)
    /\ tasks' = [u \in DOMAIN tasks \ {t} |-> tasks[u]]
    /\ UNCHANGED <<engine, finality_threshold, last, finalized, hist, agents, issued, req,
                   bus, now, social_graph>>

NextLocks ==
    \/ \E t \in Tasks, prog \in DOMAIN Programs : TaskStart(t, prog)
    \/ \E t \in Tasks : TaskStep(t)
    \/ \E t \in Tasks : TaskEnd(t)

SpecLocks == Init /\ [][NextLocks]_vars

\* ---------------------------------------------------- the engine, in use
\* The engine has no task of its own: every operation is a call of a gateway
\* handler or of a validator's loop.  SpecLive is the engine whose callers do
\* not stop calling.
SpecLive == Init /\ [][Next]_vars /\ WF_vars(Next)

\* ------------------------------------------------------------ the tokens
\* The agent gateway answers a registration with a JWT whose `exp` claim is
\* 24 hours ahead; the web gateway answers with "agent_token_" and random
\* digits.  Under SpecTokens `issued` also keeps the hour of each
\* registration and `req` the age of the token a request presents.
TokenTtl == 24
\* the clock is looked at every TickHours hours, up to MaxHours
TickHours == 12
MaxHours == 36

\* register_agent: encode(Claims { agent_id, exp: now + 24 h }) with the key
encode(id, at) == <<"jwt_key", id, at + TokenTtl>>

\* decode with Validation::default(): the key and the `exp` claim
decode(token, at) == token[1] = "jwt_key" /\ token[3] >= at

\* time passes
Tick ==
    /\ now < MaxHours
    /\ now' = now + TickHours
    /\ UNCHANGED <<engine, finality_threshold, last, finalized, hist, agents, issued, req,
                   bus, tasks, social_graph>>

\* register_agent of the agent gateway
TokenApiRegister(id, role) ==
    /\ id \notin DOMAIN agents
    /\ agents' = Insert(agents, id, NewAgent(role))
    /\ issued' = issued \cup {<<id, encode(id, now), now>>}
    /\ req' = [endpoint |-> "/api/agents/register", token |-> NoToken, agent_id |-> id,
               status |-> 200, age |-> 0]
    /\ UNCHANGED <<engine, finality_threshold, last, finalized, hist, bus, others>>

\* register_agent of the web gateway
TokenWebRegister(id, rest) ==
    /\ \A t \in issued : t[1] # id
    /\ issued' = issued \cup {<<id, <<"agent_token_", rest>>, now>>}
    /\ req' = [endpoint |-> "/api/agents/register", token |-> NoToken, agent_id |-> id,
               status |-> 200, age |-> 0]
    /\ UNCHANGED <<engine, finality_threshold, last, finalized, hist, agents, bus, others>>

\* a request to the agent gateway with a token it has issued: auth_middleware
\* and get_agent_from_request decode the token and look the agent up
TokenApiRequest(t) ==
    LET id == IF decode(t[2], now) THEN get_agent_from_request(t[2]) ELSE NoAgent IN
    /\ t[2][1] = "jwt_key"
    /\ req' = [endpoint |-> "/api/validators/vote", token |-> t[2], agent_id |-> id,
               status |-> IF id = NoAgent THEN 401 ELSE 200, age |-> now - t[3]]
    /\ UNCHANGED <<engine, finality_threshold, last, finalized, hist, agents, issued, bus,
                   others>>

\* a request to the web gateway with a token it has issued, over HTTP or as
\* a WebSocket connection
TokenWebRequest(t, endpoint) ==
    /\ t[2][1] = "agent_token_"
    /\ req' = [endpoint |-> endpoint, token |-> t[2], agent_id |-> t[1],
               status |-> IF endpoint = "/api/ws" THEN ws_handler(t[2], t[1])
                          ELSE auth_middleware(t[2], t[1]),
               age |-> now - t[3]]
    /\ UNCHANGED <<engine, finality_threshold, last, finalized, hist, agents, issued, bus,
                   others>>

NextTokens ==
    \/ Tick
    \/ \E id \in Agents, role \in Roles : TokenApiRegister(id, role)
    \/ \E id \in Agents, rest \in TokenRests : TokenWebRegister(id, rest)
    \/ \E t \in issued : TokenApiRequest(t)
    \/ \E t \in issued, endpoint \in {"/api/agents/validate", "/api/ws"} :
          TokenWebRequest(t, endpoint)

SpecTokens == Init /\ [][NextTokens]_vars

\* ------------------------------------------------------- the width of u64
\* Stakes are u64.  SpecWidth is the engine over a word of StakeBits bits in
\* place of 64: `+=` and Iterator::sum overflow as the build has it (a panic
\* with overflow checks, as in a debug build, a wrapped value without), and
\* saturating_add stops at the largest value.
StakeBits == 4
WordMax == 2 ^ StakeBits - 1
WidthStakes == {1, WordMax}
\* one validator, which is also the producer of the blocks
WidthAgents == {"v1"}

\* u64::saturating_add
saturating_add(a, b) == IF a + b > WordMax THEN WordMax ELSE a + b

\* u64::wrapping_add
wrapping_add(a, b) == (a + b) % (WordMax + 1)

\* a + b of u64 (`+=`, Iterator::sum): the outcomes, <<"overflow", _>> the panic
add_outcomes(a, b) ==
    IF a + b > WordMax
    THEN {<<"overflow", a>>, <<"ok", wrapping_add(a, b)>>}
    ELSE {<<"ok", a + b>>}

\* check_consensus: the approving stake, summed with saturating_add
approve_stake_saturating(vs, stakes) == saturating_add(approve_stake(vs, stakes), 0)

\* register_validator: the entry is written, then `*total += stake`
RegisterValidatorW(id, stake) ==
    \E out \in add_outcomes(total_stake, stake) :
        /\ validators_stakes' = Insert(validators_stakes, id, stake)
        /\ total_stake' = out[2]
        /\ last' = Call("register_validator", id, out[1], 0)
        /\ UNCHANGED <<current_block, votes, finality_threshold, current_proposer,
                       finalized>>

\* start_new_round: stakes.values().sum(), gen_range(0..total), the scan
StartNewRoundW ==
    \E out \in add_outcomes(SumStakes(validators_stakes), 0) :
        IF out[1] = "overflow" \/ out[2] = 0
        THEN /\ last' = Call("start_new_round", NoAgent,
                             IF out[1] = "overflow" THEN "overflow" ELSE "panic", 0)
             /\ UNCHANGED <<engine, finality_threshold, finalized>>
        ELSE \E pick \in 0..(out[2] - 1), order \in Orders(DOMAIN validators_stakes) :
               /\ current_proposer' = select_proposer(order, pick, validators_stakes)
               /\ votes' = EmptyMap
               /\ current_block' = NoBlock
               /\ last' = Call("start_new_round", NoAgent, "ok", 0)
               /\ finalized' = FALSE
               /\ UNCHANGED <<total_stake, finality_threshold, validators_stakes>>

\* award_proposer: stake.saturating_add(reward), then `*total += reward`
award_stakes_saturating(stakes, proposer_id, reward) ==
    IF proposer_id \in DOMAIN stakes
    THEN [stakes EXCEPT ![proposer_id] = saturating_add(@, reward)]
    ELSE stakes

\* add_vote
AddVoteW(agent_id, vote) ==
    LET pre == add_vote_check(current_block, vote) IN
    IF pre # "store"
    THEN /\ last' = VoteCall(agent_id, vote, pre, 0)
         /\ UNCHANGED <<engine, finality_threshold, finalized>>
    ELSE
      LET inserted == Insert(votes, agent_id, vote)
          res == IF approve_stake_saturating(inserted, validators_stakes)
                      >= threshold_stake(total_stake, finality_threshold)
                 THEN "consensus" ELSE "insufficient_stake"
      IN /\ votes' = inserted
         /\ UNCHANGED <<current_block, current_proposer, finality_threshold>>
         /\ IF res = "consensus" /\ current_proposer # NoAgent
            THEN \E reward \in RewardLow..(RewardHighExcl - 1) :
                   \E out \in add_outcomes(total_stake, reward) :
                     /\ finalized' = TRUE
                     /\ validators_stakes' =
                          award_stakes_saturating(validators_stakes, current_proposer,
                                                  reward)
                     /\ total_stake' = out[2]
                     /\ last' = VoteCall(agent_id, vote,
                                         IF out[1] = "overflow" THEN "overflow" ELSE res,
                                         reward)
            ELSE /\ last' = VoteCall(agent_id, vote, res, 0)
                 /\ finalized' = (finalized \/ res = "consensus")
                 /\ UNCHANGED <<validators_stakes, total_stake>>

NextWidth ==
    \/ \E b \in {x \in Blocks : x.producer \in WidthAgents} :
          StartVotingRound(b) /\ UNCHANGED <<hist, gateway>>
    \/ \E id \in WidthAgents, s \in WidthStakes :
          RegisterValidatorW(id, s) /\ UNCHANGED <<hist, gateway>>
    \/ \E id \in WidthAgents, v \in Votes : AddVoteW(id, v) /\ UNCHANGED <<hist, gateway>>
    \/ StartNewRoundW /\ UNCHANGED <<hist, gateway>>

SpecWidth == Init /\ [][NextWidth]_vars

\* ------------------------------------------------------ the social graph
\* Drama scores are f64 sums of drama_score / 10.0; the model keeps them in
\* tenths.
SocialActions == {"ShareMeme", "ProposeAlliance"}
DramaLevels == {0, 8}
MaxInteractions == 2

\* SocialGraph::get_drama_score, in tenths
get_drama_score(graph, agent_id) ==
    IF agent_id \in DOMAIN graph.drama_scores THEN graph.drama_scores[agent_id] ELSE 0

\* add_interaction, lines 80-82: the drama is added to both scores
add_drama(graph, interaction) ==
    LET from_added == Insert(graph.drama_scores, interaction.from_agent,
                             get_drama_score(graph, interaction.from_agent)
                               + interaction.drama_score)
        to_score == IF interaction.to_agent \in DOMAIN from_added
                    THEN from_added[interaction.to_agent] ELSE 0
    IN [graph EXCEPT
          !.drama_scores = Insert(from_added, interaction.to_agent,
                                  to_score + interaction.drama_score),
          !.interactions = Append(@, interaction)]

\* SocialGraph::are_allied
are_allied(graph, agent1, agent2) ==
    agent1 \in DOMAIN graph.alliances /\ agent2 \in graph.alliances[agent1]

\* add_interaction: the scores, the alliance of a ProposeAlliance, the log
add_interaction(graph, interaction) ==
    LET scored == add_drama(graph, interaction) IN
    IF interaction.action = "ProposeAlliance"
    THEN [scored EXCEPT
            !.alliances = Insert(@, interaction.from_agent,
                                 (IF interaction.from_agent \in DOMAIN @
                                  THEN @[interaction.from_agent] ELSE {})
                                   \cup {interaction.to_agent})]
    ELSE scored

\* SocialGraph::add_interaction, as social_interaction calls it for an
\* authenticated agent and a registered target
AddInteraction(from, to, action, drama_score) ==
    /\ Len(social_graph.interactions) < MaxInteractions
    /\ social_graph' = add_interaction(social_graph,
                          [from_agent |-> from, to_agent |-> to, action |-> action,
                           drama_score |-> drama_score])
    /\ UNCHANGED <<engine, finality_threshold, last, finalized, hist, agents, issued, req,
                   bus, tasks, now>>

NextSocial ==
    \E from, to \in Agents, action \in SocialActions, drama_score \in DramaLevels :
        AddInteraction(from, to, action, drama_score)

SpecSocial == Init /\ [][NextSocial]_vars

\* --------------------------------------------- the engine, call by call
\* Every lock of the engine is taken and dropped by itself, so the calls of
\* concurrent tasks interleave between the statements of an operation.
\* Under SpecRace a task in `tasks` is a call in progress with its locals;
\* `hist` counts the rounds (writes of current_proposer by start_new_round)
\* and keeps the proposer selected when the block under vote was proposed.
NoRace == [round |-> 0, block_proposer |-> NoAgent]
MaxRounds == 2
RaceStakes == {1}
RaceTotal == 3
RaceRatios == {<<1, 2>>}

\* a call in progress: the statement it is at and its locals
Frame(op, pc, block, id, approve, round) ==
    [op |-> op, pc |-> pc, block |-> block, id |-> id, approve |-> approve, round |-> round]

\* the calls in progress are told apart by a slot; a new call takes the first
\* free one, as the slots are interchangeable
RaceTasks == {1, 2}
free(t) == t \notin DOMAIN tasks /\ \A u \in RaceTasks \ DOMAIN tasks : t <= u

\* a task is inside add_vote: it holds current_block.read() and votes.write()
voting == {t \in DOMAIN tasks : tasks[t].op = "add_vote"}

\* set_proposal, lines 143-149: the check under current_proposer.read(),
\* the guard dropped
SetProposalCheck(t, block, proposer_id) ==
    LET res == set_proposal_check(current_proposer, proposer_id) IN
    /\ free(t)
    /\ IF res = "ok"
       THEN /\ tasks' = Insert(tasks, t, Frame("set_proposal", "store", block, proposer_id,
                                               FALSE, hist.round))
            /\ UNCHANGED last
       ELSE /\ last' = Call("set_proposal", proposer_id, res, 0)
            /\ UNCHANGED tasks
    /\ UNCHANGED <<engine, finality_threshold, finalized, hist>>

\* set_proposal, lines 150-153: the block stored under current_block.write()
SetProposalStore(t) ==
    /\ t \in DOMAIN tasks
    /\ tasks[t].op = "set_proposal"
    /\ voting = {}
    /\ current_block' = tasks[t].block
    /\ hist' = [hist EXCEPT !.block_proposer = tasks[t].id]
    /\ last' = Call("set_proposal", tasks[t].id, "ok", 0)
    /\ tasks' = [u \in DOMAIN tasks \ {t} |-> tasks[u]]
    /\ UNCHANGED <<votes, total_stake, finality_threshold, current_proposer,
                   validators_stakes, finalized>>

\* start_new_round, lines 113-132: the draw and the write of current_proposer
StartNewRoundSelect(t) ==
    LET total == SumStakes(validators_stakes) IN
    /\ free(t)
    /\ hist.round < MaxRounds
    /\ IF total = 0
       THEN /\ last' = Call("start_new_round", NoAgent, "panic", 0)
            /\ UNCHANGED <<engine, finality_threshold, finalized, hist, tasks>>
       ELSE \E pick \in 0..(total - 1), order \in Orders(DOMAIN validators_stakes) :
              /\ current_proposer' = select_proposer(order, pick, validators_stakes)
              /\ hist' = [hist EXCEPT !.round = @ + 1]
              /\ tasks' = Insert(tasks, t, Frame("start_new_round", "votes", NoBlock,
                                                 NoAgent, FALSE, hist.round + 1))
              /\ UNCHANGED <<current_block, votes, total_stake, finality_threshold,
                             validators_stakes, last, finalized>>

\* start_new_round, line 138: self.votes.write().await.clear()
StartNewRoundVotes(t) ==
    /\ t \in DOMAIN tasks
    /\ tasks[t].op = "start_new_round" /\ tasks[t].pc = "votes"
    /\ voting = {}
    /\ votes' = EmptyMap
    /\ tasks' = [tasks EXCEPT ![t].pc = "block"]
    /\ UNCHANGED <<current_block, total_stake, finality_threshold, current_proposer,
                   validators_stakes, last, finalized, hist>>

\* start_new_round, line 139: *self.current_block.write().await = None
StartNewRoundBlock(t) ==
    /\ t \in DOMAIN tasks
    /\ tasks[t].op = "start_new_round" /\ tasks[t].pc = "block"
    /\ voting = {}
    /\ current_block' = NoBlock
    /\ last' = Call("start_new_round", NoAgent, "ok", 0)
    /\ finalized' = FALSE
    /\ tasks' = [u \in DOMAIN tasks \ {t} |-> tasks[u]]
    /\ UNCHANGED <<votes, total_stake, finality_threshold, current_proposer,
                   validators_stakes, hist>>

\* add_vote, lines 47-68: the checks, the insertion and check_consensus under
\* current_block.read() and votes.write(); both guards live to the end
AddVoteStore(t, agent_id, vote) ==
    LET pre == add_vote_check(current_block, vote)
        inserted == Insert(votes, agent_id, vote)
        res == check_consensus(inserted, validators_stakes, total_stake,
                               finality_threshold)
    IN /\ free(t)
       /\ voting = {}
       /\ IF pre # "store"
          THEN /\ last' = VoteCall(agent_id, vote, pre, 0)
               /\ UNCHANGED <<votes, finalized, tasks>>
          ELSE /\ votes' = inserted
               /\ IF res = "consensus"
                  THEN /\ tasks' = Insert(tasks, t, Frame("add_vote", "award", current_block,
                                                          agent_id, vote.approve, hist.round))
                       /\ UNCHANGED <<last, finalized>>
                  ELSE /\ last' = VoteCall(agent_id, vote, res, 0)
                       /\ UNCHANGED <<finalized, tasks>>
       /\ UNCHANGED <<current_block, total_stake, finality_threshold, current_proposer,
                      validators_stakes, hist>>

\* add_vote, lines 70-79: the reward for the proposer read now
AddVoteAward(t) ==
    LET vote == [block_hash |-> hash(tasks[t].block), approve |-> tasks[t].approve] IN
    /\ t \in DOMAIN tasks
    /\ tasks[t].op = "add_vote"
    /\ finalized' = TRUE
    /\ tasks' = [u \in DOMAIN tasks \ {t} |-> tasks[u]]
    /\ IF current_proposer # NoAgent
       THEN \E reward \in RewardLow..(RewardHighExcl - 1) :
              /\ total_stake + reward <= RaceTotal
              /\ validators_stakes' =
                   award_stakes(validators_stakes, current_proposer, reward)
              /\ total_stake' = award_total(total_stake, reward)
              /\ last' = VoteCall(tasks[t].id, vote, "consensus", reward)
       ELSE /\ last' = VoteCall(tasks[t].id, vote, "consensus", 0)
            /\ UNCHANGED <<validators_stakes, total_stake>>
    /\ UNCHANGED <<current_block, votes, finality_threshold, current_proposer, hist>>

NextRace ==
    \/ \E id \in Agents, s \in RaceStakes :
          /\ total_stake + s <= RaceTotal
          /\ RegisterValidator(id, s)
          /\ UNCHANGED <<hist, gateway>>
    \/ \E b \in Blocks :
          /\ voting = {}
          /\ StartVotingRound(b)
          /\ hist' = [hist EXCEPT !.block_proposer = current_proposer]
          /\ UNCHANGED gateway
    \/ \E t \in RaceTasks, id \in Agents :
          SetProposalCheck(t, [height |-> 1, producer |-> id], id) /\ UNCHANGED <<agents, issued, req, bus, now, social_graph>>
    \/ \E t \in RaceTasks :
          SetProposalStore(t) /\ UNCHANGED <<agents, issued, req, bus, now, social_graph>>
    \/ \E t \in RaceTasks :
          StartNewRoundSelect(t) /\ UNCHANGED <<agents, issued, req, bus, now, social_graph>>
    \/ \E t \in RaceTasks :
          StartNewRoundVotes(t) /\ UNCHANGED <<agents, issued, req, bus, now, social_graph>>
    \/ \E t \in RaceTasks :
          StartNewRoundBlock(t) /\ UNCHANGED <<agents, issued, req, bus, now, social_graph>>
    \/ \E t \in RaceTasks, id \in Agents, v \in Votes :
          AddVoteStore(t, id, v) /\ UNCHANGED <<agents, issued, req, bus, now, social_graph>>
    \/ \E t \in RaceTasks :
          AddVoteAward(t) /\ UNCHANGED <<agents, issued, req, bus, now, social_graph>>

\* ConsensusManager::new, no call in progress
InitRace ==
    /\ current_block = NoBlock
    /\ current_proposer = NoAgent
    /\ votes = EmptyMap
    /\ validators_stakes = EmptyMap
    /\ total_stake = 0
    /\ finality_threshold \in RaceRatios
    /\ last = Call("new", NoAgent, "ok", 0)
    /\ finalized = FALSE
    /\ hist = NoRace
    /\ agents = EmptyMap
    /\ issued = {}
    /\ bus = NoBus
    /\ tasks = NoTasks
    /\ now = 0
    /\ social_graph = NoSocialGraph
    /\ req = NoReq

SpecRace == InitRace /\ [][NextRace]_vars

\* ------------------------------------------- proposals over the socket
\* Under SpecSocket `hist` is the block of the validation request sent last.
\* the events handle_socket sends for a BLOCK_PROPOSAL message
SocketProposalEvents == <<"validation_required", "announcement">>

\* handle_socket, BLOCK_PROPOSAL: the block is rebuilt from the message and
\* the validation request and the announcement are sent; the engine is not
\* called
SocketBlockProposal(block) ==
    /\ \E s \in DOMAIN bus.subs : bus.subs[s].kind = "ws" /\ bus.subs[s].live
    /\ Room(bus, Len(SocketProposalEvents))
    /\ bus' = publish(bus, SocketProposalEvents)
    /\ hist' = block
    /\ UNCHANGED <<engine, finality_threshold, last, finalized, agents, issued, others, req>>

\* submit_content, with the block its validation request names
ContentProposal(agent_id, height) ==
    /\ SubmitContent(agent_id, height)
    /\ hist' = [height |-> height, producer |-> agent_id]
    /\ UNCHANGED <<agents, issued, others, req>>

\* this step sends a validation request
ValidationRequested ==
    \E i \in (Len(bus.log) + 1)..Len(bus'.log) : bus'.log[i] = "validation_required"

NextSocket ==
    \/ \E s \in Subscribers, kind \in SubKinds : BusSubscribe(s, kind)
    \/ \E s \in Subscribers : BusRecv(s)
    \/ \E id \in Agents, height \in Heights : ContentProposal(id, height)
    \/ \E b \in Blocks : SocketBlockProposal(b)
    \/ \E id \in Agents, approved \in BOOLEAN :
          SubmitValidation(id, approved) /\ UNCHANGED <<hist, agents, issued, others, req>>

InitSocket ==
    /\ current_block = NoBlock
    /\ current_proposer = NoAgent
    /\ votes = EmptyMap
    /\ validators_stakes = EmptyMap
    /\ total_stake \in InitTotals
    /\ finality_threshold \in Ratios
    /\ last = Call("new", NoAgent, "ok", 0)
    /\ finalized = FALSE
    /\ hist = NoBlock
    /\ agents = EmptyMap
    /\ issued = {}
    /\ bus = NoBus
    /\ tasks = NoTasks
    /\ now = 0
    /\ social_graph = NoSocialGraph
    /\ req = NoReq

SpecSocket == InitSocket /\ [][NextSocket]_vars

\* ------------------------------------------------------ the demo network
\* `demo --web`: one engine, the built-in validators subscribed to the
\* network channel, proposals from submit_content of the web server that
\* shares the channel and the engine.  Under SpecDemo `hist` is the set of
\* validators that approved in response to the latest validation request.
DemoValidators == Agents
\* let stake_per_validator = 100u64
stake_per_validator == 100
\* ConsensusConfig::default(): finality_ratio 0.667
DemoRatio == <<667, 1000>>
\* the length of the text used when the request names no hash, and of a hash
DefaultHashLen == 64
HashLen == 32
ZeroHash == hash(NoBlock)

\* block_data["hash"].as_str().unwrap_or(..).as_bytes().try_into()
\*     .unwrap_or([0u8; 32]): the bytes of the text when there are HashLen of
\* them, the zero hash otherwise
vote_block_hash(len, bytes) == IF len = HashLen THEN bytes ELSE ZeroHash

\* the "block" object of submit_content's request has no "hash" member
request_hash_len == DefaultHashLen

\* the logging task of the demo: while let Ok(event) = rx.recv().await
DemoLogger == "log"

\* the receivers of the network channel: the logging task's and the
\* validators' rx = tx_validator.subscribe()
DemoBus ==
    [log |-> <<>>,
     subs |-> [v \in DemoValidators \cup {DemoLogger} |->
                 [kind |-> IF v = DemoLogger THEN "log" ELSE "validator",
                  start |-> 1, next |-> 1, frames |-> <<>>,
                  lagged |-> FALSE, live |-> TRUE]]]

\* submit_content of the web server
DemoPropose(agent_id, height) ==
    /\ SubmitContent(agent_id, height)
    /\ hist' = {}
    /\ UNCHANGED <<agents, issued, others, req>>

\* one turn of a validator's loop: an event is received; a validation
\* request is answered by a vote of random approval through add_vote
DemoValidate(v) ==
    LET sub == bus.subs[v] IN
    /\ sub.next <= Len(bus.log)
    /\ IF sub.next < oldest(bus)
       THEN /\ bus' = [bus EXCEPT !.subs[v] = lagged(@, oldest(bus))]
            /\ UNCHANGED <<engine, finality_threshold, last, finalized, hist>>
       ELSE /\ bus' = [bus EXCEPT !.subs[v] = received(@)]
            /\ IF bus.log[sub.next] = "validation_required"
               THEN \E approved \in BOOLEAN :
                      /\ AddVote(v, [block_hash |->
                                       vote_block_hash(request_hash_len, hash(current_block)),
                                     approve |-> approved], stake_per_validator)
                      /\ hist' = IF approved THEN hist \cup {v} ELSE hist \ {v}
               ELSE UNCHANGED <<engine, finality_threshold, last, finalized, hist>>
    /\ UNCHANGED <<agents, issued, others, req>>

NextDemo ==
    \/ \E id \in Agents, height \in Heights : DemoPropose(id, height)
    \/ \E v \in DemoValidators : DemoValidate(v)
    \/ BusRecv(DemoLogger)

\* create_consensus_manager(validators * 100, ConsensusConfig::default());
\* no validator is registered with the engine
InitDemo ==
    /\ current_block = NoBlock
    /\ current_proposer = NoAgent
    /\ votes = EmptyMap
    /\ validators_stakes = EmptyMap
    /\ total_stake = Cardinality(DemoValidators) * stake_per_validator
    /\ finality_threshold = DemoRatio
    /\ last = Call("new", NoAgent, "ok", 0)
    /\ finalized = FALSE
    /\ hist = {}
    /\ agents = EmptyMap
    /\ issued = {}
    /\ bus = DemoBus
    /\ tasks = NoTasks
    /\ now = 0
    /\ social_graph = NoSocialGraph
    /\ req = NoReq

\* every validator task is scheduled as long as it has an event to receive
SpecDemo ==
    InitDemo /\ [][NextDemo]_vars /\ \A v \in DemoValidators : WF_vars(DemoValidate(v))

\* ------------------------------------------------------------ the phases
\* The engine has no phase field; the round's phase is read off its state.
Idle == current_proposer = NoAgent /\ current_block = NoBlock
AwaitingProposal == current_proposer # NoAgent /\ current_block = NoBlock
Voting == current_block # NoBlock /\ ~finalized
Finalized == finalized

\* the stake of agent a as the finality rule counts it: its registered stake
\* when a has an approving vote in vs, else nothing
Weight(a, vs, stakes) ==
    IF a \in DOMAIN vs /\ a \in DOMAIN stakes /\ vs[a].approve THEN stakes[a] ELSE 0

RECURSIVE WeightSum(_, _, _)
WeightSum(S, vs, stakes) ==
    IF S = {} THEN 0
    ELSE LET a == CHOOSE x \in S : TRUE
         IN Weight(a, vs, stakes) + WeightSum(S \ {a}, vs, stakes)

\* floor(total * num / den)
FloorOfRatio(total, ratio) ==
    CHOOSE q \in 0..total : q * ratio[2] <= total * ratio[1]
                            /\ (q + 1) * ratio[2] > total * ratio[1]

\* C1: a call of add_vote that stores the vote returns Ok(true) if and only
\* if, with the vote stored, the stake of the validators whose vote approves
\* is at least floor(total_stake * finality_ratio); so the call that makes a
\* round Finalized has met that threshold.
C1_FinalityRule ==
    [][(last'.op = "add_vote" /\ last'.res \in {"consensus", "insufficient_stake"})
        => /\ (last'.res = "consensus")
                <=> (WeightSum(Agents, votes', validators_stakes)
                        >= FloorOfRatio(total_stake, finality_threshold))
           /\ (finalized' /\ ~finalized) => last'.res = "consensus"]_vars

\* C1 witness: add_vote has just declared consensus with the approving stake
\* exactly on a positive threshold, one validator having voted to reject
C1_Witness ==
    /\ last.op = "add_vote" /\ last.res = "consensus" /\ last.reward = 0
    /\ FloorOfRatio(total_stake, finality_threshold) > 0
    /\ WeightSum(Agents, votes, validators_stakes)
         = FloorOfRatio(total_stake, finality_threshold)
    /\ \E a \in DOMAIN votes : ~votes[a].approve /\ a \in DOMAIN validators_stakes

\* C2: once add_vote has returned Ok(true) for the round, a further vote for
\* the block under vote is rejected with InvalidPhase and changes nothing of
\* the engine's state (votes, stakes, total_stake, proposer, block).
C2_VoteAfterConsensusRejected ==
    [][(finalized /\ last'.op = "add_vote"
        /\ last'.res \notin {"wrong_block", "no_active_round"})
        => (last'.res = "invalid_phase" /\ UNCHANGED engine)]_vars

\* C3: over the add_vote calls of one round (with a selected proposer) the
\* proposer reward is applied exactly once: the call that finalizes the round
\* adds one reward r, 1 <= r <= 10, to total_stake, and every other call
\* leaves total_stake alone.
C3_RewardOncePerRound ==
    [][(last'.op = "add_vote" /\ current_proposer # NoAgent)
        => IF finalized' /\ ~finalized
           THEN \E r \in 1..10 : total_stake' = total_stake + r
           ELSE total_stake' = total_stake]_vars

\* C4: the cached total_stake is the sum of the registered validators' stakes.
C4_TotalIsSumOfStakes == total_stake = SumStakes(validators_stakes)

\* C5: every stored vote is for the block under vote.
C5_VotesMatchBlock ==
    \A a \in DOMAIN votes : votes[a].block_hash = hash(current_block)

\* C6: set_proposal with a proposer_id that is not the round's selected
\* proposer fails with the wrong-proposer error and changes nothing: the block
\* is not stored and the votes and the proposer stay as they were.
C6_WrongProposerRejected ==
    [][(last'.op = "set_proposal" /\ last'.arg # current_proposer)
        => (last'.res = "wrong_proposer" /\ UNCHANGED engine
            /\ UNCHANGED finalized)]_vars

\* C6 witness: a round awaiting its proposal has just refused the proposal of
\* an agent that is a validator but not the selected proposer
C6_Witness ==
    /\ last.op = "set_proposal" /\ last.res = "wrong_proposer"
    /\ AwaitingProposal
    /\ last.arg \in DOMAIN validators_stakes
    /\ last.arg # current_proposer

\* C7: with a block under vote, a proposal (set_proposal by the selected
\* proposer, or the gateway's start_voting_round) fails with InvalidPhase and
\* neither replaces the block nor clears the votes.
C7_ProposalOnlyWhenAwaiting ==
    [][(current_block # NoBlock
        /\ \/ last'.op = "start_voting_round"
           \/ (last'.op = "set_proposal" /\ last'.arg = current_proposer))
        => (last'.res = "invalid_phase"
            /\ current_block' = current_block /\ votes' = votes)]_vars

\* C8: start_new_round on a round that is not Idle (validators with stake
\* being registered) fails with Busy and leaves the proposer, the block and
\* the votes as they were.
C8_OpenRoundBusy ==
    [][(last'.op = "start_new_round" /\ ~Idle
        /\ SumStakes(validators_stakes) > 0)
        => (last'.res = "busy"
            /\ UNCHANGED <<current_proposer, current_block, votes>>)]_vars

\* C9: with a total validator stake of 0, start_new_round returns the
\* NoValidators error (it does not panic) and no round is open.
C9_NoValidatorsIsAnError ==
    (last.op = "start_new_round" /\ SumStakes(validators_stakes) = 0)
        => (last.res = "no_validators" /\ current_proposer = NoAgent)

\* the stake scanned up to and including position k of a scan order
RECURSIVE PrefixSum(_, _, _)
PrefixSum(order, k, stakes) ==
    IF k = 0 THEN 0 ELSE PrefixSum(order, k - 1, stakes) + stakes[order[k]]

\* the validator at which the running sum first exceeds r
FirstExceeding(order, r, stakes) ==
    LET ks == {k \in DOMAIN order : PrefixSum(order, k, stakes) > r}
    IN order[CHOOSE k \in ks : \A j \in ks : k <= j]

\* C10: for every scan order of the registered validators and every draw r
\* in [0, S), the selected proposer is the validator at which the running sum
\* of stakes first exceeds r; so validator i is selected by exactly stake_i of
\* the S draws, a validator of stake 0 by none, and every draw selects one.
\* The proposer stored by start_new_round is such a validator.
C10_PrefixSumSelection ==
    LET stakes == validators_stakes
        S == SumStakes(stakes)
    IN /\ \A order \in Orders(DOMAIN stakes) :
            /\ \A r \in 0..(S - 1) :
                  /\ select_proposer(order, r, stakes) \in DOMAIN stakes
                  /\ select_proposer(order, r, stakes) = FirstExceeding(order, r, stakes)
            /\ \A i \in DOMAIN stakes :
                  Cardinality({r \in 0..(S - 1) : select_proposer(order, r, stakes) = i})
                      = stakes[i]
       /\ (last.op = "start_new_round" /\ last.res = "ok")
            => /\ current_proposer \in DOMAIN stakes
               /\ stakes[current_proposer] > 0

\* C10 witness: start_new_round has just selected a proposer among two
\* validators, one of stake 0 and one of stake at least 2
C10_Witness ==
    /\ last.op = "start_new_round" /\ last.res = "ok"
    /\ \E a, b \in DOMAIN validators_stakes :
          /\ validators_stakes[a] = 0
          /\ validators_stakes[b] >= 2
          /\ current_proposer = b

\* ------------------------------------------------------------- C11 .. C20
\* the results of add_vote that leave the vote out of the vote set
Rejections == {"no_active_round", "wrong_block"}

\* add_vote has just stored its vote
Stored == last.op = "add_vote" /\ last.res \notin Rejections

\* C11: add_vote fails with no-active-round exactly when there is no block
\* under vote, and with wrong-block only when there is one; a vote that is
\* not refused carries the hash of the block under vote, so a vote whose hash
\* differs is refused.  A refused vote leaves the vote set, the stakes, the
\* total, the proposer and the block under vote as they were.
C11_WrongBlockVoteRefused ==
    [][last'.op = "add_vote" =>
          /\ (last'.res = "no_active_round") <=> (current_block = NoBlock)
          /\ last'.res = "wrong_block" => current_block # NoBlock
          /\ last'.res \in Rejections => UNCHANGED <<engine, finalized>>
          /\ last'.res \notin Rejections =>
                /\ last'.arg \in DOMAIN votes'
                /\ votes'[last'.arg].block_hash = hash(current_block)
                /\ current_block' = current_block]_vars

\* C11 witness: a vote for another block has just been refused in a round
\* that holds a vote already, and the round is still open
C11_Witness ==
    /\ last.op = "add_vote" /\ last.res = "wrong_block"
    /\ current_block # NoBlock
    /\ votes # EmptyMap
    /\ \A a \in DOMAIN votes : votes[a].block_hash = hash(current_block)

\* C12: a vote of an agent that is not a registered validator fails with
\* unknown-voter and is not stored.
C12_UnknownVoterRefused ==
    [][(last'.op = "add_vote" /\ last'.arg \notin DOMAIN validators_stakes
          /\ last'.res \notin Rejections)
        => (last'.res = "unknown_voter" /\ votes' = votes)]_vars

\* C13: a vote of a registered validator for the block under vote is answered
\* with status 200, its outcome being recorded or consensus-reached and never
\* an error, whether or not the threshold is met (a rejecting vote included).
C13_ValidVoteAnswered200 ==
    (Stored /\ last.arg \in DOMAIN validators_stakes)
        => /\ last.res \in {"recorded", "consensus"}
           /\ submit_vote_status(last.res) = 200
           /\ submit_validation_status(last.res) = "success"

\* the name hist.prev gives to a vote
VoteName(approve) == IF approve THEN "approve" ELSE "reject"

\* the approving stake, as the claims define it, over the stakes the call read
ApproveStake(vs) == WeightSum(Agents, vs, validators_stakes)

\* C14: the vote set holds one vote per validator: a stored vote takes the
\* place of the voter's earlier vote and leaves the votes of the others as
\* they were; a replay of the vote the voter has already cast changes neither
\* the number of votes nor the approving stake.
C14_OneVotePerValidator ==
    [][(last'.op = "add_vote" /\ last'.res \notin Rejections) =>
          /\ DOMAIN votes' = DOMAIN votes \cup {last'.arg}
          /\ \A a \in DOMAIN votes \ {last'.arg} : votes'[a] = votes[a]
          /\ votes'[last'.arg].approve = last'.approve
          /\ (last'.arg \in DOMAIN votes /\ votes[last'.arg].approve = last'.approve)
                => /\ Cardinality(DOMAIN votes') = Cardinality(DOMAIN votes)
                   /\ ApproveStake(votes') = ApproveStake(votes)]_vars

\* C14 witness: a validator of positive stake has just replayed its approving
\* vote while another validator's vote is in the set
C14_Witness ==
    /\ Stored /\ last.approve /\ hist.prev = "approve"
    /\ last.arg \in DOMAIN validators_stakes
    /\ validators_stakes[last.arg] > 0
    /\ Cardinality(DOMAIN votes) = 2

\* the scenario of C15 at scale 1:50: two validators of stake 1, total 2 and
\* ratio 1/2, so threshold 1
FlipScenario ==
    /\ validators_stakes = [a \in Agents |-> 1]
    /\ total_stake = 2
    /\ finality_threshold = <<1, 2>>

C16_SuppliedStakeCounted ==
    [][(last'.op = "add_vote" /\ last'.res \notin Rejections
          /\ votes = EmptyMap /\ last'.approve)
        => ((last'.res = "consensus")
              <=> (hist'.stake >= FloorOfRatio(total_stake, finality_threshold)))]_vars

\* C18: the performance score of every registered agent is at least 0 and at
\* most 1 after any sequence of successful and failed updates from 1.0.
C18_ScoreInUnitInterval ==
    \A id \in DOMAIN agents :
        LET score == agents[id].performance_score
        IN /\ 0 <= score[1]
           /\ score[1] <= Pow10(score[2])
           /\ get_effective_stake(agents[id]) <= agents[id].stake

\* C18 witness: an agent's score has gone down by a failure and up again by a
\* success, and is strictly between 0 and 1
C18_Witness ==
    \E id \in DOMAIN agents :
        LET a == agents[id]
        IN /\ a.successful_validations >= 1
           /\ a.total_votes_submitted > a.successful_validations
           /\ 0 < a.performance_score[1]
           /\ a.performance_score[1] < Pow10(a.performance_score[2])

ActingRoutes == {"/api/agents/validate", "/api/transactions/propose", "/api/ws"}

\* C19: a token authenticates exactly the agent_id it was issued with: a
\* request that presents the token of one registration and is let through to
\* vote, propose or subscribe acts as the agent of that registration.
C19_TokenBoundToAgent ==
    (/\ req.status = 200
     /\ req.endpoint \in ActingRoutes
     /\ \E pair \in issued : pair[2] = req.token)
        => <<req.agent_id, req.token>> \in issued

\* C20: registration aside, a request reaches the handler of a route only with
\* a valid token of a registered agent.
C20_HandlersNeedValidToken ==
    (req.status = 200 /\ req.endpoint \notin {"none", "/api/agents/register"})
        => \E pair \in issued : pair[2] = req.token

\* ------------------------------------------------------------- C21 .. C30
\* C21: a vote submitted by an authenticated agent that is not a validator is
\* answered with 403 (Forbidden), and the votes of the round and the agent's
\* counters stay as they were.
C21_NonValidatorForbidden ==
    [][(/\ last'.op = "submit_vote"
        /\ last'.arg \in DOMAIN agents
        /\ agents[last'.arg].role # "validator")
        => /\ last'.res = "403"
           /\ votes' = votes
           /\ agents' = agents]_vars

\* C22: an operation that publishes an event never reports an error because of
\* the event bus: a block proposal of an authenticated agent is answered with
\* 200 whatever the number of subscribers, none included.
C22_PublishNeverFails ==
    (req.endpoint = "/api/producers/propose" /\ req.agent_id # NoAgent)
        => req.status = 200

\* C23: a receiver that has never lagged has forwarded, in the order of
\* publication and without a gap, exactly the events sent since it subscribed
\* up to the one it receives next; so the three events of one proposal reach
\* it as proposal, announcement, validation request.
C23_SubscriberFifo ==
    \A s \in DOMAIN bus.subs :
        LET sub == bus.subs[s] IN
        ~sub.lagged =>
            /\ Len(sub.frames) = sub.next - sub.start
            /\ \A i \in 1..Len(sub.frames) : sub.frames[i] = sub.start + i - 1
            /\ sub.next <= Len(bus.log) + 1
            /\ \A i \in 1..Len(sub.frames) :
                  (bus.log[sub.frames[i]] = "proposal" /\ i + 2 <= Len(sub.frames))
                    => /\ bus.log[sub.frames[i + 1]] = "announcement"
                       /\ bus.log[sub.frames[i + 2]] = "validation_required"

\* C23 witness: a receiver that never lagged has forwarded every event sent
\* since it subscribed, a vote's events and then the three of a proposal
C23_Witness ==
    \E s \in DOMAIN bus.subs :
        LET sub == bus.subs[s] IN
        /\ sub.live /\ ~sub.lagged
        /\ sub.next = Len(bus.log) + 1
        /\ Len(sub.frames) = 5
        /\ bus.log[sub.frames[3]] = "proposal"
        /\ bus.log[sub.frames[5]] = "validation_required"

\* C24: a subscriber that falls behind while the publisher goes on observes
\* the oldest events it had room for, at most its capacity of them, and then
\* a lag notice; it stays subscribed.
C24_DataThenLagNotice ==
    \A s \in DOMAIN bus.subs :
        LET sub == bus.subs[s] IN
        sub.lagged =>
            \E i \in 1..Len(sub.frames) :
                /\ sub.frames[i] = LagFrame
                /\ i - 1 \in 1..BusCapacity
                /\ \A j \in 1..(i - 1) : sub.frames[j] = sub.start + j - 1

\* the tasks of S wait for guards that only tasks of S hold
Deadlocked(S) ==
    /\ S # {}
    /\ \A t \in S : running(t) /\ holders(t, statement(t)) # {}
                    /\ holders(t, statement(t)) \subseteq S

\* C25: no interleaving of gateway requests and engine operations deadlocks:
\* there is never a set of tasks each waiting for a lock that only tasks of
\* the set hold.
C25_NoDeadlock == \A S \in SUBSET DOMAIN tasks : ~Deadlocked(S)

\* C26: at most one consensus announcement is published per round: a
\* consensus event is appended to the bus only by the vote that brings the
\* round to consensus, never in a round that has reached it before.
C26_OneConsensusEventPerRound ==
    [][(/\ Len(bus'.log) > Len(bus.log)
        /\ bus'.log[Len(bus'.log)] \in ConsensusEvents)
        => ~finalized]_vars

\* C27: the vote that brings a round to consensus is an approving vote: when
\* add_vote returns Ok(true) for the first time in a round, the vote it has
\* just stored has approve = true.
C27_DecidingVoteApproves ==
    [][(~finalized /\ finalized') => last'.approve]_vars

\* C28: with a finality ratio of 1 add_vote returns Ok(true) only when every
\* registered validator has an approving vote stored for the round.
C28_UnanimityAtRatioOne ==
    (finality_threshold = <<1, 1>> /\ last.op = "add_vote" /\ last.res = "consensus")
        => \A v \in DOMAIN validators_stakes : v \in DOMAIN votes /\ votes[v].approve

\* C28 (as the engine has it): with a finality ratio of 1 add_vote returns
\* Ok(true) only when every validator registered with a positive stake has an
\* approving vote stored for the round; validators of stake 0 do not count.
C28_UnanimityOfStake ==
    [][(finality_threshold = <<1, 1>> /\ last'.op = "add_vote" /\ last'.res = "consensus")
        => \A v \in DOMAIN validators_stakes :
              validators_stakes[v] > 0 => (v \in DOMAIN votes' /\ votes'[v].approve)]_vars

C28_Witness ==
    /\ finality_threshold = <<1, 1>>
    /\ last.op = "add_vote" /\ last.res = "consensus"
    /\ total_stake > 0
    /\ DOMAIN validators_stakes = Agents
    /\ \A v \in Agents : validators_stakes[v] > 0 /\ v \in DOMAIN votes /\ votes[v].approve

\* C29: whenever a block is under vote, the selected proposer is the
\* proposer recorded in that block.
C29_BlockOfSelectedProposer ==
    current_block # NoBlock => current_proposer = current_block.producer

\* C30: every successful registration adds exactly one agent to the registry
\* and nothing else adds or removes one, so after n registrations the network
\* status reports n registered agents; a registered validator is on the
\* leaderboard.
C30_RegistrationAddsOneAgent ==
    [][LET before == get_network_status(agents).registered_agents
           after == get_network_status(agents').registered_agents
       IN IF last'.op = "register_agent"
          THEN /\ after = before + 1
               /\ \A id \in DOMAIN agents : agents'[id] = agents[id]
               /\ (agents'[last'.arg].role = "validator"
                     <=> last'.arg \in leaderboard_validators(agents'))
          ELSE after = before]_vars

C30_Witness ==
    /\ last.op = "register_agent"
    /\ get_network_status(agents).registered_agents = 2
    /\ leaderboard_validators(agents) = Agents

\* C31: a round under vote that has not reached the threshold does not stay
\* open: it is aborted after its deadline, so from Voting the engine always
\* comes to Idle or to Finalized.
C31_UndecidedRoundAborted == Voting ~> (Idle \/ Finalized)

\* C32: a request that presents a token older than 24 hours is answered
\* 401, on the agent gateway, on the web gateway and on its WebSocket.
C32_ExpiredTokenRejected ==
    (req.endpoint \notin {"none", "/api/agents/register"} /\ req.age > TokenTtl)
        => req.status = 401

\* C33: stake arithmetic saturates: no operation of the engine aborts on an
\* overflow, and the cached total never wraps around (it never decreases).
C33_StakeArithmeticSaturates ==
    [][last'.res # "overflow" /\ total_stake' >= total_stake]_vars

\* C34: after one interaction with a positive drama score from A towards
\* another agent B, and no other interaction, the drama score of A is
\* strictly higher than that of B.
C34_InitiatorScoresHigher ==
    LET log == social_graph.interactions IN
    (Len(log) = 1 /\ log[1].drama_score > 0 /\ log[1].from_agent # log[1].to_agent)
        => get_drama_score(social_graph, log[1].from_agent)
             > get_drama_score(social_graph, log[1].to_agent)

\* C35: an add_vote that returns an error (wrong block, no active round,
\* insufficient stake) leaves the vote set as it was before the call.
C35_FailedVoteStoresNothing ==
    [][(/\ last'.op = "add_vote"
        /\ last'.res \in {"wrong_block", "no_active_round", "insufficient_stake"})
        => votes' = votes]_vars

\* C36: set_proposal's check and store are atomic with respect to
\* start_new_round: when a block is stored, either the round is still the one
\* in which its submitter was found to be the proposer, or the submitter is
\* the proposer selected now.
C36_ProposalStoredInItsRound ==
    [][\A t \in DOMAIN tasks :
          (tasks[t].op = "set_proposal" /\ t \notin DOMAIN tasks')
            => (hist.round = tasks[t].round \/ current_proposer = tasks[t].id)]_vars

\* C37: the reward paid when a block is finalized goes to the agent that was
\* the selected proposer when that block was proposed, however add_vote and
\* start_new_round interleave (for a block proposed under a selected proposer).
C37_RewardToProposerOfBlock ==
    [][\A t \in DOMAIN tasks :
          (/\ tasks[t].op = "add_vote" /\ t \notin DOMAIN tasks'
           /\ hist.block_proposer # NoAgent /\ total_stake' > total_stake)
            => validators_stakes' = award_stakes(validators_stakes, hist.block_proposer,
                                                 total_stake' - total_stake)]_vars

\* C38: add_vote reports consensus only when some registered validator with
\* positive stake has an approving vote, whatever total_stake and the ratio.
C38_ConsensusNeedsApprovingStake ==
    [][(last'.op = "add_vote" /\ last'.res = "consensus")
        => \E v \in DOMAIN votes' :
              /\ votes'[v].approve
              /\ v \in DOMAIN validators_stakes
              /\ validators_stakes[v] > 0]_vars

\* C39: when a validation request for block B is published, the engine is
\* already voting on B: B is the block under vote at that moment.
C39_RequestAfterRoundStarted ==
    [][ValidationRequested => current_block' = hist']_vars

\* C40: in the demo network a proposed block that every built-in validator
\* has approved in response to its validation request eventually reaches
\* consensus.
C40_DemoReachesConsensus ==
    (current_block # NoBlock /\ hist = DemoValidators) ~> finalized
====
